---- MODULE Spec2Model ----
(***************************************************************************)
(* Model of worker.js: the topic-relevance classifier                      *)
(* (validateTopicRelevance), the rejection composer, the audit log and the *)
(* request dispatch of the four POST handlers.                             *)
(*                                                                         *)
(* A JavaScript string is a sequence of UTF-16 code units; each code unit  *)
(* is a one-element TLA+ string ("a", "T", " "), except the two code units *)
(* "I_DOT" (U+0130) and "DOT_ABOVE" (U+0307), which have no ASCII name.    *)
(***************************************************************************)
EXTENDS Integers, Sequences, FiniteSets, TLC

\* ------------------------------------------------------------------ bounds

\* Texts of the classifier specification are built from at most this many
\* fragments.
MaxFragments == 3

\* Requests served in one behaviour of the dispatch specification.
MaxRequests == 1

\* The number of requests the concurrent specification handles at once.
MaxInFlight == 2

\* ------------------------------------------------------------ JS strings

UpperLetters ==
  <<"A","B","C","D","E","F","G","H","I","J","K","L","M",
    "N","O","P","Q","R","S","T","U","V","W","X","Y","Z">>

LowerLetters ==
  <<"a","b","c","d","e","f","g","h","i","j","k","l","m",
    "n","o","p","q","r","s","t","u","v","w","x","y","z">>

\* String.prototype.toLowerCase on one code unit. U+0130 is the one code
\* unit of the model whose lower case is two code units (U+0069 U+0307).
toLowerChar(c) ==
  IF \E i \in 1..Len(UpperLetters) : UpperLetters[i] = c
    THEN <<LowerLetters[CHOOSE i \in 1..Len(UpperLetters) : UpperLetters[i] = c]>>
    ELSE IF c = "I_DOT" THEN <<"i", "DOT_ABOVE">> ELSE <<c>>

RECURSIVE toLowerCase(_)
toLowerCase(s) ==
  IF s = <<>> THEN <<>> ELSE toLowerChar(Head(s)) \o toLowerCase(Tail(s))

\* String.prototype.includes: keyword occurs in s at some position.
includes(s, keyword) ==
  \E i \in 1..(Len(s) - Len(keyword) + 1) :
    \A j \in 1..Len(keyword) : s[i + j - 1] = keyword[j]

\* Array.prototype.some over a keyword array, with the callback
\* keyword => text.includes(keyword); text is the value of s, taken once.
some(keywords, s) ==
  \E text \in {s} : \E k \in 1..Len(keywords) : includes(text, keywords[k])

\* ---------------------------------------------------------------- lexicon

inScopeKeywords ==
  <<
    <<"p","e","r","m","a","c","u","l","t","u","r","e">>,
    <<"r","e","g","e","n","e","r","a","t","i","v","e">>,
    <<"s","u","s","t","a","i","n","a","b","l","e">>, <<"h","o","m","e","s","t","e","a","d">>,
    <<"h","o","m","e","s","t","e","a","d","i","n","g">>, <<"p","l","a","n","t">>,
    <<"g","a","r","d","e","n">>, <<"g","a","r","d","e","n">>, <<"g","r","o","w">>,
    <<"g","r","o","w","i","n","g">>, <<"c","u","l","t","i","v","a","t">>,
    <<"h","a","r","v","e","s","t">>, <<"s","e","e","d">>, <<"s","o","i","l">>,
    <<"c","o","m","p","o","s","t">>, <<"m","u","l","c","h">>, <<"l","e","a","f">>,
    <<"r","o","o","t">>, <<"f","l","o","w","e","r">>, <<"f","r","u","i","t">>,
    <<"v","e","g","e","t","a","b","l","e">>, <<"t","r","e","e">>, <<"s","h","r","u","b">>,
    <<"p","e","r","e","n","n","i","a","l">>, <<"a","n","n","u","a","l">>, <<"w","e","e","d">>,
    <<"h","e","r","b">>, <<"e","c","o","l","o","g">>, <<"e","c","o","s","y","s","t","e","m">>,
    <<"b","i","o","d","i","v","e","r","s","i","t","y">>, <<"w","i","l","d","l","i","f","e">>,
    <<"p","o","l","l","i","n","a","t","o","r">>, <<"i","n","s","e","c","t">>,
    <<"b","i","r","d">>, <<"n","a","t","i","v","e">>, <<"i","n","v","a","s","i","v","e">>,
    <<"h","a","b","i","t","a","t">>, <<"c","o","n","s","e","r","v","a","t","i","o","n">>,
    <<"r","e","s","t","o","r","a","t","i","o","n">>, <<"c","a","r","b","o","n">>,
    <<"n","i","t","r","o","g","e","n">>, <<"p","h","o","s","p","h","o","r","u","s">>,
    <<"n","u","t","r","i","e","n","t">>, <<"c","y","c","l","e">>, <<"b","o","t","a","n","y">>,
    <<"b","o","t","a","n","i","c","a","l">>, <<"s","p","e","c","i","e","s">>,
    <<"c","u","l","t","i","v","a","r">>, <<"g","e","n","u","s">>,
    <<"p","h","o","t","o","s","y","n","t","h","e","s","i","s">>,
    <<"t","r","a","n","s","p","i","r","a","t","i","o","n">>, <<"o","s","m","o","s","i","s">>,
    <<"c","h","l","o","r","o","p","h","y","l","l">>, <<"p","h","e","n","o","t","y","p","e">>,
    <<"w","a","t","e","r">>, <<"i","r","r","i","g","a","t","i","o","n">>,
    <<"s","w","a","l","e">>, <<"p","o","n","d">>, <<"r","a","i","n","w","a","t","e","r">>,
    <<"d","r","a","i","n","a","g","e">>, <<"h","y","d","r","o","l","o","g","y">>,
    <<"s","o","i","l">>, <<"t","i","l","t","h">>, <<"t","e","x","t","u","r","e">>,
    <<"c","l","a","y">>, <<"s","a","n","d">>, <<"s","i","l","t">>, <<"p","h">>,
    <<"a","c","i","d","i","c">>, <<"a","l","k","a","l","i","n","e">>,
    <<"m","i","c","r","o","b","e">>, <<"b","a","c","t","e","r","i","a">>,
    <<"f","u","n","g","i">>, <<"m","y","c","o","r","r","h","i","z">>,
    <<"a","n","i","m","a","l">>, <<"l","i","v","e","s","t","o","c","k">>,
    <<"c","a","t","t","l","e">>, <<"s","h","e","e","p">>, <<"g","o","a","t">>,
    <<"c","h","i","c","k","e","n">>, <<"b","e","e">>, <<"a","p","i","a","r","y">>,
    <<"c","o","m","p","o","s","t","i","n","g">>, <<"m","a","n","u","r","e">>,
    <<"p","a","s","t","u","r","e">>, <<"g","r","a","z","i","n","g">>,
    <<"r","o","t","a","t","i","o","n">>, <<"d","e","s","i","g","n">>, <<"p","l","a","n">>,
    <<"l","a","y","o","u","t">>, <<"z","o","n","e">>, <<"g","u","i","l","d">>,
    <<"p","o","l","y","c","u","l","t","u","r">>, <<"i","n","t","e","r","c","r","o","p">>,
    <<"r","o","t","a","t","i","o","n">>, <<"s","u","c","c","e","s","s","i","o","n">>,
    <<"y","i","e","l","d">>, <<"p","r","o","d","u","c","t","i","v","i","t","y">>,
    <<"s","e","a","s","o","n">>, <<"s","e","a","s","o","n","a","l">>,
    <<"c","l","i","m","a","t","e">>, <<"h","a","r","d","i","n","e","s","s">>,
    <<"f","r","o","s","t">>, <<"f","r","e","e","z","e">>,
    <<"m","i","c","r","o","c","l","i","m","a","t","e">>,
    <<"p","h","e","n","o","p","h","a","s","e">>, <<"m","o","o","n"," ","p","h","a","s","e">>,
    <<"l","u","n","a","r">>, <<"m","e","d","i","c","i","n","a","l">>,
    <<"h","e","r","b","a","l">>, <<"t","i","n","c","t","u","r","e">>,
    <<"i","n","f","u","s","i","o","n">>, <<"r","e","m","e","d","y">>,
    <<"h","e","a","l","i","n","g">>, <<"e","t","h","i","c","s">>,
    <<"e","a","r","t","h","c","a","r","e">>, <<"p","e","o","p","l","e","c","a","r","e">>,
    <<"f","a","i","r","s","h","a","r","e">>, <<"p","r","i","n","c","i","p","l","e">>
  >>

offTopicKeywords ==
  <<
    <<"c","o","d","e">>, <<"p","r","o","g","r","a","m">>, <<"f","u","n","c","t","i","o","n">>,
    <<"v","a","r","i","a","b","l","e">>, <<"d","e","b","u","g">>, <<"e","r","r","o","r">>,
    <<"h","o","m","e","w","o","r","k">>, <<"e","s","s","a","y">>, <<"w","r","i","t","e">>,
    <<"p","o","e","m">>, <<"s","t","o","r","y">>, <<"f","i","c","t","i","o","n">>,
    <<"h","o","m","e","w","o","r","k">>, <<"q","u","i","z">>, <<"e","x","a","m">>,
    <<"p","o","l","i","t","i","c","s">>, <<"r","e","l","i","g","i","o","n">>,
    <<"c","o","n","s","p","i","r","a","c","y">>, <<"h","a","c","k">>, <<"c","r","a","c","k">>,
    <<"e","x","p","l","o","i","t">>, <<"m","a","l","w","a","r","e">>,
    <<"i","n","v","e","s","t","m","e","n","t">>, <<"c","r","y","p","t","o">>,
    <<"s","t","o","c","k">>, <<"t","r","a","d","i","n","g">>, <<"m","e","d","i","c","a","l">>,
    <<"d","o","c","t","o","r">>, <<"d","i","s","e","a","s","e">>,
    <<"p","r","e","s","c","r","i","p","t","i","o","n">>, <<"d","r","u","g">>,
    <<"r","e","p","a","i","r">>, <<"f","i","x">>, <<"m","e","c","h","a","n","i","c","a","l">>,
    <<"f","i","n","a","n","c","i","a","l">>, <<"t","a","x">>, <<"l","o","a","n">>,
    <<"m","o","r","t","g","a","g","e">>
  >>

\* ------------------------------------------------------------- classifier

\* The length below which a text with no in-scope keyword is too vague.
MinLength == 10

Verdict(isRelevant, reason) == [isRelevant |-> isRelevant, reason |-> reason]

\* Variants of validateTopicRelevance, each with one plausible slip.

\* The shortness check is left out.
validateTopicRelevance_NoLengthCheck(input) ==
  LET lowerInput == toLowerCase(input)
      hasOffTopicKeyword == some(offTopicKeywords, lowerInput)
      hasInScopeKeyword == some(inScopeKeywords, lowerInput)
  IN  IF hasOffTopicKeyword /\ ~hasInScopeKeyword
        THEN Verdict(FALSE, "off-topic")
        ELSE Verdict(TRUE, "in-scope")

\* An off-topic keyword rejects even when an in-scope keyword is present.
validateTopicRelevance_StrictOffTopic(input) ==
  LET lowerInput == toLowerCase(input)
      hasOffTopicKeyword == some(offTopicKeywords, lowerInput)
      hasInScopeKeyword == some(inScopeKeywords, lowerInput)
  IN  IF hasOffTopicKeyword
        THEN Verdict(FALSE, "off-topic")
        ELSE IF Len(lowerInput) < MinLength /\ ~hasInScopeKeyword
          THEN Verdict(FALSE, "too-vague")
          ELSE Verdict(TRUE, "in-scope")

\* The shortness check comes before the off-topic check.
validateTopicRelevance_LengthFirst(input) ==
  LET lowerInput == toLowerCase(input)
      hasOffTopicKeyword == some(offTopicKeywords, lowerInput)
      hasInScopeKeyword == some(inScopeKeywords, lowerInput)
  IN  IF Len(lowerInput) < MinLength /\ ~hasInScopeKeyword
        THEN Verdict(FALSE, "too-vague")
        ELSE IF hasOffTopicKeyword /\ ~hasInScopeKeyword
          THEN Verdict(FALSE, "off-topic")
          ELSE Verdict(TRUE, "in-scope")

\* A text with no in-scope keyword is too vague whatever its length.
validateTopicRelevance_RequireInScope(input) ==
  LET lowerInput == toLowerCase(input)
      hasOffTopicKeyword == some(offTopicKeywords, lowerInput)
      hasInScopeKeyword == some(inScopeKeywords, lowerInput)
  IN  IF hasOffTopicKeyword /\ ~hasInScopeKeyword
        THEN Verdict(FALSE, "off-topic")
        ELSE IF ~hasInScopeKeyword
          THEN Verdict(FALSE, "too-vague")
          ELSE Verdict(TRUE, "in-scope")

validateTopicRelevance(input) ==
  LET lowerInput == toLowerCase(input)
      hasOffTopicKeyword == some(offTopicKeywords, lowerInput)
      hasInScopeKeyword == some(inScopeKeywords, lowerInput)
  IN  IF hasOffTopicKeyword /\ ~hasInScopeKeyword
        THEN Verdict(FALSE, "off-topic")
        ELSE IF Len(lowerInput) < MinLength /\ ~hasInScopeKeyword
          THEN Verdict(FALSE, "too-vague")
          ELSE Verdict(TRUE, "in-scope")

\* --------------------------------------------------------------- composer

suggestions ==
  << "Garden design and planning",
     "Companion planting and plant guilds",
     "Soil health and regeneration",
     "Permaculture principles and ethics",
     "Seasonal farming and moon cycles",
     "Ecological systems and biodiversity",
     "Plant diagnostics and herbalism",
     "Water management and swales",
     "Animal integration and husbandry" >>

\* The message is the sequence of the literals the code concatenates.
createRejectionMessage(validationResult) ==
  << "I'm specialized in permaculture and regenerative agriculture! " >>
  \o ( IF validationResult.reason = "too-vague"
         THEN << "Could you provide more details about your gardening or permaculture question?" >>
         ELSE << "That's outside my area of expertise, but I'd be happy to help with:" >> )
  \o suggestions
  \o << "How can I help with your permaculture or gardening needs?" >>

\* ------------------------------------------------------------ JSON values

Undefined == [type |-> "undefined"]
Null == [type |-> "null"]
Str(s) == [type |-> "string", value |-> s]
Num(n) == [type |-> "number", value |-> n]
Obj == [type |-> "object"]

IsString(v) == v.type = "string"

\* A variant of Falsy that takes the empty string for a value.
Falsy_EmptyStringIsValue(v) ==
  \/ v.type \in {"undefined", "null"}
  \/ v.type = "number" /\ v.value = 0

\* The operand of `!x`: undefined, null, "" and 0 are falsy.
Falsy(v) ==
  \/ v.type \in {"undefined", "null"}
  \/ v.type = "string" /\ v.value = <<>>
  \/ v.type = "number" /\ v.value = 0

\* --------------------------------------------------------------- audit log

\* How the console behaves during one logOffTopicQuery: both console.log
\* calls succeed, the first one throws, or the second one throws.
SinkOutcomes == {"ok", "firstThrows", "secondThrows"}

\* A variant of logOffTopicQuery without its try/catch: what console.log
\* throws reaches the caller.
logOffTopicQuery_NoCatch(query, endpoint, sink) ==
  LET line == [level |-> "log", tag |-> "[OFF-TOPIC]", endpoint |-> endpoint, query |-> query]
      logEntry == [level |-> "log", timestamp |-> "now", endpoint |-> endpoint, query |-> query,
                   queryLength |-> Len(query), type |-> "off-topic-attempt"]
  IN  CASE sink = "ok" -> [entries |-> <<line, logEntry>>, thrown |-> FALSE]
        [] sink = "firstThrows" -> [entries |-> <<>>, thrown |-> TRUE]
        [] sink = "secondThrows" -> [entries |-> <<line>>, thrown |-> TRUE]

\* A variant of logOffTopicQuery that tags every entry with '/api/ask'.
logOffTopicQuery_FixedEndpoint(query, endpoint, sink) ==
  LET line == [level |-> "log", tag |-> "[OFF-TOPIC]", endpoint |-> "/api/ask", query |-> query]
      logEntry == [level |-> "log", timestamp |-> "now", endpoint |-> "/api/ask", query |-> query,
                   queryLength |-> Len(query), type |-> "off-topic-attempt"]
      diagnostic == [level |-> "error", tag |-> "Error logging off-topic query:"]
  IN  CASE sink = "ok" -> [entries |-> <<line, logEntry>>, thrown |-> FALSE]
        [] sink = "firstThrows" -> [entries |-> <<diagnostic>>, thrown |-> FALSE]
        [] sink = "secondThrows" -> [entries |-> <<line, diagnostic>>, thrown |-> FALSE]

\* What logOffTopicQuery writes to the console, and whether it throws into
\* its caller: the line, then the structured entry; when a console.log
\* throws, the catch block writes the diagnostic instead and nothing is
\* thrown.
logOffTopicQuery(query, endpoint, sink) ==
  LET line == [level |-> "log", tag |-> "[OFF-TOPIC]", endpoint |-> endpoint, query |-> query]
      logEntry == [level |-> "log", timestamp |-> "now", endpoint |-> endpoint, query |-> query,
                   queryLength |-> Len(query), type |-> "off-topic-attempt"]
      diagnostic == [level |-> "error", tag |-> "Error logging off-topic query:"]
  IN  CASE sink = "ok" -> [entries |-> <<line, logEntry>>, thrown |-> FALSE]
        [] sink = "firstThrows" -> [entries |-> <<diagnostic>>, thrown |-> FALSE]
        [] sink = "secondThrows" -> [entries |-> <<line, diagnostic>>, thrown |-> FALSE]

\* ---------------------------------------------------------- upstream call

\* The max_tokens default of callClaudeAPI and the budgets the handlers pass.
DefaultMaxTokens == 1000
PlanMaxTokens == 1200
GridPlanMaxTokens == 1500

\* The request callClaudeAPI sends.
callClaudeAPI(prompt, maxTokens) ==
  [url |-> "https://api.anthropic.com/v1/messages", max_tokens |-> maxTokens, content |-> prompt]

\* How the upstream call ends: a message, a body that is no message, a
\* non-OK status, or a rejected fetch.
UpstreamOutcomes == {"ok", "malformed", "notOk", "networkError"}

\* ---------------------------------------------------------------- prompts

\* The default of the location parameter of the prompt builders.
DefaultLocation == Str(<<"I","o","w","a",","," ","Z","o","n","e"," ","5">>)

createPermaculturePrompt(userQuestion, context) ==
  [template |-> "consult", userQuestion |-> userQuestion, context |-> context]

createPlanningPrompt(spaceSize, soilType, goals, location) ==
  [template |-> "plan", spaceSize |-> spaceSize, soilType |-> soilType, goals |-> goals,
   location |-> IF location = Undefined THEN DefaultLocation ELSE location]

createDiagnosisPrompt(plant, problem, timeframe, location) ==
  [template |-> "diagnose", plant |-> plant, problem |-> problem, timeframe |-> timeframe,
   location |-> IF location = Undefined THEN DefaultLocation ELSE location]

createGridPlanPrompt(width, length, plants) ==
  [template |-> "grid-plan", width |-> width, length |-> length, plants |-> plants,
   area |-> width.value * length.value]

\* --------------------------------------------------------------- responses

corsHeaders ==
  { <<"Access-Control-Allow-Origin", "*">>,
    <<"Access-Control-Allow-Methods", "POST, GET, OPTIONS">>,
    <<"Access-Control-Allow-Headers", "Content-Type">> }

\* A variant of jsonHeaders that leaves the cross-origin headers out.
jsonHeaders_NoCors == { <<"Content-Type", "application/json">> }

jsonHeaders == { <<"Content-Type", "application/json">> } \cup corsHeaders

Response(status, headers, body) == [status |-> status, headers |-> headers, body |-> body]

\* The body of `new Response(null)` and of a text response.
EmptyBody == [text |-> <<>>]
TextBody(text) == [text |-> <<text>>]

NoResponse == [status |-> 0]

\* The 200 of a topical rejection.
Rejection(validation) ==
  Response(200, jsonHeaders,
           [response |-> createRejectionMessage(validation),
            isOffTopic |-> TRUE,
            validationReason |-> validation.reason])

\* The 200 that carries the generated text.
Answer(message) ==
  Response(200, jsonHeaders,
           [response |-> message.text, usage |-> message.usage, isOffTopic |-> FALSE])

BadRequest(error) == Response(400, jsonHeaders, [error |-> error])

\* A variant of ServerError: the details are left out.
ServerError_NoDetails(error, details) ==
  Response(500, jsonHeaders, [error |-> error])

\* The catch block of a handler. details is error.message, as the sequence
\* of the pieces it is made of.
ServerError(error, details) ==
  Response(500, jsonHeaders, [error |-> error, details |-> details])

\* ------------------------------------------------------------------ state

VARIABLES
  input,          \* classifier specification: the text handed to the classifier
  fragments,      \* classifier specification: number of fragments input is made of
  verdict,        \* classifier specification: what validateTopicRelevance returned
  pc,             \* where the request in flight is: idle, a handler, the upstream await, done
  request,        \* the request in flight: method, path, body
  validations,    \* the classifier calls made for the request in flight, in call order
  console,        \* everything logOffTopicQuery has written, oldest first
  auditStart,     \* Len(console) when the request in flight arrived
  upstreamCalls,  \* the calls made to the text-generation service for the request in flight
  upstreamResult, \* how the upstream call of the request in flight ended
  response,       \* the response of the request in flight
  served,         \* the number of requests that have arrived
  inFlight        \* the concurrent specification: the invocations of fetch in progress

classifierVars == <<input, fragments, verdict>>

dispatchVars ==
  <<pc, request, validations, console, auditStart, upstreamCalls, upstreamResult, response, served>>

concurrentVars == <<inFlight>>

vars == <<input, fragments, verdict, pc, request, validations, console, auditStart,
          upstreamCalls, upstreamResult, response, served, inFlight>>

NoVerdict == [isRelevant |-> FALSE, reason |-> "none"]

NoRequest == [method |-> "none", path |-> "none", body |-> [kind |-> "none"]]

\* An invocation of fetch that no request has reached yet.
NoInvocation ==
  [ pc |-> "idle", request |-> NoRequest, validations |-> <<>>, upstreamCalls |-> <<>>,
    upstreamResult |-> "none", response |-> NoResponse ]

\* ------------------------------------------------------------------ inputs

\* The pieces the classifier specification builds its texts from: an
\* off-topic keyword, an in-scope keyword in mixed case, a neutral word, a
\* blank, four U+0130 code units and an off-topic keyword in upper case.
Fragments ==
  { <<"t","a","x">>, <<"S","o","i","l">>, <<"h","e","l","l","o">>, <<" ">>,
    <<"I_DOT","I_DOT","I_DOT","I_DOT">>, <<"W","R","I","T","E">> }

\* The texts a classified field of a request body carries: the empty
\* string, a short neutral text, an off-topic text, a text with off-topic
\* and in-scope keywords, and a long neutral text.
MyTomato == <<"m","y"," ","t","o","m","a","t","o">>
PoemAboutTaxFraud == <<"w","r","i","t","e"," ","a"," ","p","o","e","m"," ","a","b","o","u","t"," ","t","a","x"," ","f","r","a","u","d">>
FixMyTaxPlan == <<"f","i","x"," ","m","y"," ","t","a","x"," ","p","l","a","n">>
HelloHello == <<"h","e","l","l","o"," ","h","e","l","l","o">>

FieldTexts == { <<>>, MyTomato, PoemAboutTaxFraud, FixMyTaxPlan, HelloHello }

\* A classified field: missing, a string, or a JSON value that is no string.
TextValues == {Undefined, Num(5)} \cup { Str(s) : s \in FieldTexts }

\* A field the handler only interpolates into the prompt.
OtherValues == {Undefined, Str(<<"x">>)}

\* width and length of a grid plan.
SizeValues == {Undefined, Num(0), Num(10)}

Methods == {"POST", "GET", "OPTIONS"}

Paths == {"/api/ask", "/api/plan", "/api/diagnose", "/api/grid-plan", "/api/health", "/api/other"}

\* What request.json() meets: a JSON object, the JSON value null, or text
\* that is no JSON.
ObjectBodies(path) ==
  IF path = "/api/ask"
    THEN [question : TextValues, context : {Undefined, Null, Obj}]
  ELSE IF path = "/api/plan"
    THEN [spaceSize : OtherValues, soilType : OtherValues, goals : TextValues,
          location : OtherValues]
  ELSE IF path = "/api/diagnose"
    THEN [plant : TextValues, problem : TextValues, timeframe : OtherValues,
          location : OtherValues]
  ELSE IF path = "/api/grid-plan"
    THEN [width : SizeValues, length : SizeValues, plants : TextValues]
  ELSE {}

Bodies(method, path) ==
  IF method = "POST" /\ ObjectBodies(path) # {}
    THEN { [kind |-> "object", fields |-> f] : f \in ObjectBodies(path) }
         \cup { [kind |-> "null"], [kind |-> "malformed"] }
    ELSE { [kind |-> "none"] }

\* ----------------------------------------------------------------- routing

\* A variant of Route that looks at the path only.
Route_IgnoresMethod(method, path) ==
  IF path = "/api/ask" THEN "handleAsk"
  ELSE IF path = "/api/plan" THEN "handlePlan"
  ELSE IF path = "/api/diagnose" THEN "handleDiagnose"
  ELSE IF path = "/api/grid-plan" THEN "handleGridPlan"
  ELSE IF path = "/api/health" THEN "health"
  ELSE "notFound"

\* The route of fetch: the handler, the health reply, or not found.
Route(method, path) ==
  IF path = "/api/ask" /\ method = "POST" THEN "handleAsk"
  ELSE IF path = "/api/plan" /\ method = "POST" THEN "handlePlan"
  ELSE IF path = "/api/diagnose" /\ method = "POST" THEN "handleDiagnose"
  ELSE IF path = "/api/grid-plan" /\ method = "POST" THEN "handleGridPlan"
  ELSE IF path = "/api/health" /\ method = "GET" THEN "health"
  ELSE "notFound"

HandlerNames == {"handleAsk", "handlePlan", "handleDiagnose", "handleGridPlan"}

\* The `error` of the catch block of each handler.
FailureMessage(handler) ==
  CASE handler = "handleAsk" -> "Failed to get AI response"
    [] handler = "handlePlan" -> "Failed to generate plan"
    [] handler = "handleDiagnose" -> "Failed to diagnose issue"
    [] handler = "handleGridPlan" -> "Failed to generate grid plan"

\* The message of the error `await request.json()` and the destructuring
\* of its value throw, when they throw.
BodyError(body) ==
  IF body.kind = "malformed" THEN <<"SyntaxError: not valid JSON">>
  ELSE <<"TypeError: cannot destructure null">>

\* The message of the error input.toLowerCase() throws on a value that is
\* no string.
NotAString == <<"TypeError: input.toLowerCase is not a function">>

\* One call of the classifier, as the trace keeps it.
Call(text) == [input |-> text, result |-> validateTopicRelevance(text)]

\* ----------------------------------------------------------------- actions

Init ==
  /\ input = <<>>
  /\ fragments = 0
  /\ verdict = NoVerdict
  /\ pc = "idle"
  /\ request = NoRequest
  /\ validations = <<>>
  /\ console = <<>>
  /\ auditStart = 0
  /\ upstreamCalls = <<>>
  /\ upstreamResult = "none"
  /\ response = NoResponse
  /\ served = 0
  /\ inFlight = [i \in 1..MaxInFlight |-> NoInvocation]

\* A handler returns: the classifier calls it made, what it logged, its response.
Return(calls, entries, resp) ==
  /\ pc' = "done"
  /\ validations' = calls
  /\ console' = console \o entries
  /\ response' = resp
  /\ UNCHANGED <<request, auditStart, upstreamCalls, upstreamResult, served, classifierVars,
               concurrentVars>>

\* A handler reaches `await callClaudeAPI(prompt, key, maxTokens)`.
Await(calls, call) ==
  /\ pc' = "callClaudeAPI"
  /\ validations' = calls
  /\ upstreamCalls' = Append(upstreamCalls, call)
  /\ UNCHANGED <<request, console, auditStart, upstreamResult, response, served, classifierVars,
               concurrentVars>>

\* fetch: the preflight reply, the routing, the health reply and not found.
\* Each handler catches whatever it throws, so the catch block of fetch
\* (500, 'Internal server error') is never entered from a handler.
fetch ==
  /\ pc \in {"idle", "done"}
  /\ served < MaxRequests
  /\ \E method \in Methods, path \in Paths :
       \E body \in Bodies(method, path) :
         /\ request' = [method |-> method, path |-> path, body |-> body]
         /\ IF method = "OPTIONS"
              THEN /\ pc' = "done"
                   /\ response' = Response(200, corsHeaders, EmptyBody)
              ELSE IF Route(method, path) \in HandlerNames
                THEN /\ pc' = Route(method, path)
                     /\ response' = NoResponse
              ELSE IF Route(method, path) = "health"
                THEN /\ pc' = "done"
                     /\ response' = Response(200, jsonHeaders, [status |-> "OK", timestamp |-> "now"])
              ELSE /\ pc' = "done"
                   /\ response' = Response(404, corsHeaders, TextBody("Not Found"))
  /\ validations' = <<>>
  /\ upstreamCalls' = <<>>
  /\ upstreamResult' = "none"
  /\ auditStart' = Len(console)
  /\ served' = served + 1
  /\ UNCHANGED <<console, classifierVars, concurrentVars>>

\* What a handler has done when it returns or reaches its upstream await:
\* the classifier calls made, the console entries written, and either the
\* response or the upstream call.
NoCall == [url |-> "none"]

Returned(calls, entries, resp) ==
  [calls |-> calls, entries |-> entries, resp |-> resp, call |-> NoCall]

Forwarded(calls, call) ==
  [calls |-> calls, entries |-> <<>>, resp |-> NoResponse, call |-> call]

\* The rejection branch of a handler: `await logOffTopicQuery(...)`, then the
\* rejection; what the await throws lands in the catch block of the handler.
Rejected(calls, log, name, validation) ==
  Returned(calls, log.entries,
           IF log.thrown
             THEN ServerError(FailureMessage(name), <<"Error: console.log failed">>)
             ELSE Rejection(validation))

Step(outcome) ==
  IF outcome.call = NoCall
    THEN Return(outcome.calls, outcome.entries, outcome.resp)
    ELSE Await(outcome.calls, outcome.call)

\* handleAsk up to its return or its upstream await.
runHandleAsk(body, sink) ==
  LET question == body.fields.question
      context == body.fields.context
      validation == Call(question.value)
  IN  IF body.kind # "object"
        THEN Returned(<<>>, <<>>, ServerError(FailureMessage("handleAsk"), BodyError(body)))
      ELSE IF Falsy(question)
        THEN Returned(<<>>, <<>>, BadRequest("Question is required"))
      ELSE IF ~IsString(question)
        THEN Returned(<<>>, <<>>, ServerError(FailureMessage("handleAsk"), NotAString))
      ELSE IF ~validation.result.isRelevant
        THEN Rejected(<<validation>>,
                      logOffTopicQuery(question.value, "/api/ask", sink),
                      "handleAsk", validation.result)
      ELSE IF context = Null
        THEN Returned(<<validation>>, <<>>,
                      ServerError(FailureMessage("handleAsk"),
                                  <<"TypeError: cannot destructure context as it is null">>))
      ELSE Forwarded(<<validation>>,
                     callClaudeAPI(createPermaculturePrompt(question, context), DefaultMaxTokens))

handleAsk ==
  /\ pc = "handleAsk"
  /\ \E sink \in SinkOutcomes :
       \E outcome \in {runHandleAsk(request.body, sink)} : Step(outcome)

\* handlePlan up to its return or its upstream await.
runHandlePlan(body, sink) ==
  LET f == body.fields
      validation == Call(f.goals.value)
  IN  IF body.kind # "object"
        THEN Returned(<<>>, <<>>, ServerError(FailureMessage("handlePlan"), BodyError(body)))
      ELSE IF ~IsString(f.goals)
        THEN Returned(<<>>, <<>>, ServerError(FailureMessage("handlePlan"), NotAString))
      ELSE IF ~validation.result.isRelevant
        THEN Rejected(<<validation>>,
                      logOffTopicQuery(<<"D","E","S","I","G","N",":"," ">> \o f.goals.value, "/api/plan", sink),
                      "handlePlan", validation.result)
      ELSE Forwarded(<<validation>>,
                     callClaudeAPI(createPlanningPrompt(f.spaceSize, f.soilType, f.goals, f.location),
                                   PlanMaxTokens))

handlePlan ==
  /\ pc = "handlePlan"
  /\ \E sink \in SinkOutcomes :
       \E outcome \in {runHandlePlan(request.body, sink)} : Step(outcome)

\* Variants of decidingValidation: the problem verdict is looked at first;
\* the branches are exchanged.
decidingValidation_ProblemFirst(plantValidation, problemValidation) ==
  IF problemValidation.isRelevant THEN plantValidation ELSE problemValidation

decidingValidation_Exchanged(plantValidation, problemValidation) ==
  IF plantValidation.isRelevant THEN plantValidation ELSE problemValidation

\* The verdict the rejection of handleDiagnose is composed from.
decidingValidation(plantValidation, problemValidation) ==
  IF plantValidation.isRelevant THEN problemValidation ELSE plantValidation

\* handleDiagnose up to its return or its upstream await.
runHandleDiagnose(body, sink) ==
  LET f == body.fields
      plantValidation == Call(f.plant.value)
      problemValidation == Call(f.problem.value)
  IN  IF body.kind # "object"
        THEN Returned(<<>>, <<>>, ServerError(FailureMessage("handleDiagnose"), BodyError(body)))
      ELSE IF ~IsString(f.plant)
        THEN Returned(<<>>, <<>>, ServerError(FailureMessage("handleDiagnose"), NotAString))
      ELSE IF ~IsString(f.problem)
        THEN Returned(<<plantValidation>>, <<>>,
                      ServerError(FailureMessage("handleDiagnose"), NotAString))
      ELSE IF ~plantValidation.result.isRelevant \/ ~problemValidation.result.isRelevant
        THEN Rejected(<<plantValidation, problemValidation>>,
                      logOffTopicQuery(<<"D","I","A","G","N","O","S","E"," ","-"," ","P","l","a","n","t",":"," ">> \o f.plant.value
                                         \o <<","," ","P","r","o","b","l","e","m",":"," ">> \o f.problem.value,
                                       "/api/diagnose", sink),
                      "handleDiagnose",
                      decidingValidation(plantValidation.result, problemValidation.result))
      ELSE Forwarded(<<plantValidation, problemValidation>>,
                     callClaudeAPI(createDiagnosisPrompt(f.plant, f.problem, f.timeframe, f.location),
                                   DefaultMaxTokens))

handleDiagnose ==
  /\ pc = "handleDiagnose"
  /\ \E sink \in SinkOutcomes :
       \E outcome \in {runHandleDiagnose(request.body, sink)} : Step(outcome)

\* A variant of gridPlanInvalid that forgets plants.
gridPlanInvalid_ForgetsPlants(width, length, plants) ==
  Falsy(width) \/ Falsy(length)

\* The structural validation of handleGridPlan.
gridPlanInvalid(width, length, plants) ==
  Falsy(width) \/ Falsy(length) \/ Falsy(plants)

\* handleGridPlan up to its return or its upstream await.
runHandleGridPlan(body, sink) ==
  LET f == body.fields
      validation == Call(f.plants.value)
  IN  IF body.kind # "object"
        THEN Returned(<<>>, <<>>, ServerError(FailureMessage("handleGridPlan"), BodyError(body)))
      ELSE IF gridPlanInvalid(f.width, f.length, f.plants)
        THEN Returned(<<>>, <<>>, BadRequest("Width, length, and plants are required"))
      ELSE IF ~IsString(f.plants)
        THEN Returned(<<>>, <<>>, ServerError(FailureMessage("handleGridPlan"), NotAString))
      ELSE IF ~validation.result.isRelevant
        THEN Rejected(<<validation>>,
                      logOffTopicQuery(<<"G","R","I","D","-","P","L","A","N",":"," ">> \o f.plants.value, "/api/grid-plan", sink),
                      "handleGridPlan", validation.result)
      ELSE Forwarded(<<validation>>,
                     callClaudeAPI(createGridPlanPrompt(f.width, f.length, f.plants),
                                   GridPlanMaxTokens))

handleGridPlan ==
  /\ pc = "handleGridPlan"
  /\ \E sink \in SinkOutcomes :
       \E outcome \in {runHandleGridPlan(request.body, sink)} : Step(outcome)

\* The response of a handler whose upstream call has ended: the answer, or
\* the 500 of its catch block.
upstreamResponse(name, outcome) ==
  CASE outcome = "ok" ->
         Answer([text |-> "upstream text", usage |-> "upstream usage"])
    [] outcome = "malformed" ->
         ServerError(FailureMessage(name), <<"TypeError: no content in the upstream body">>)
    [] outcome = "notOk" ->
         ServerError(FailureMessage(name), <<"Claude API error: ", "upstream error text">>)
    [] outcome = "networkError" ->
         ServerError(FailureMessage(name), <<"TypeError: fetch failed">>)

\* The upstream call ends and the handler that awaited it returns.
awaitClaudeAPI ==
  /\ pc = "callClaudeAPI"
  /\ \E outcome \in UpstreamOutcomes :
       /\ upstreamResult' = outcome
       /\ response' = upstreamResponse(Route(request.method, request.path), outcome)
  /\ pc' = "done"
  /\ UNCHANGED <<request, validations, console, auditStart, upstreamCalls, served, classifierVars,
               concurrentVars>>

Next ==
  \/ fetch
  \/ handleAsk
  \/ handlePlan
  \/ handleDiagnose
  \/ handleGridPlan
  \/ awaitClaudeAPI

Spec == Init /\ [][Next]_vars

\* A handler resumes once `await request.json()` has settled, and the
\* upstream call ends: it returns or it fails.
FairSpec ==
  /\ Spec
  /\ WF_vars(handleAsk) /\ WF_vars(handlePlan) /\ WF_vars(handleDiagnose)
  /\ WF_vars(handleGridPlan) /\ WF_vars(awaitClaudeAPI)

\* ------------------------------------------- the classifier specification

AppendFragment ==
  /\ fragments < MaxFragments
  /\ \E f \in Fragments : input' = input \o f
  /\ fragments' = fragments + 1
  /\ verdict' = NoVerdict
  /\ UNCHANGED <<dispatchVars, concurrentVars>>

Classify ==
  /\ verdict = NoVerdict
  /\ verdict' = validateTopicRelevance(input)
  /\ UNCHANGED <<input, fragments>>
  /\ UNCHANGED <<dispatchVars, concurrentVars>>

NextClassify == AppendFragment \/ Classify

SpecClassify == Init /\ [][NextClassify]_vars

\* ------------------------------------------ the concurrent specification

\* The runtime runs several invocations of fetch at once and switches
\* between them at their awaits. Every name a handler assigns is a local of
\* its invocation; the console is the one thing the invocations share.

\* The requests the invocations receive: a question that is rejected, one
\* that is forwarded, one whose prompt cannot be built, and an unknown path.
ConcurrentRequests ==
  { [method |-> "POST", path |-> "/api/ask",
     body |-> [kind |-> "object",
               fields |-> [question |-> Str(PoemAboutTaxFraud), context |-> Undefined]]],
    [method |-> "POST", path |-> "/api/ask",
     body |-> [kind |-> "object",
               fields |-> [question |-> Str(HelloHello), context |-> Undefined]]],
    [method |-> "POST", path |-> "/api/ask",
     body |-> [kind |-> "object",
               fields |-> [question |-> Str(HelloHello), context |-> Null]]],
    [method |-> "GET", path |-> "/api/other", body |-> [kind |-> "none"]] }

\* fetch up to the await of its handler, or to its own response.
arrived(req) ==
  LET route == Route(req.method, req.path)
      handled == req.method # "OPTIONS" /\ route \in HandlerNames
  IN  [ pc |-> IF handled THEN route ELSE "done",
        request |-> req,
        validations |-> <<>>,
        upstreamCalls |-> <<>>,
        upstreamResult |-> "none",
        response |->
          IF req.method = "OPTIONS" THEN Response(200, corsHeaders, EmptyBody)
          ELSE IF handled THEN NoResponse
          ELSE IF route = "health"
            THEN Response(200, jsonHeaders, [status |-> "OK", timestamp |-> "now"])
          ELSE Response(404, corsHeaders, TextBody("Not Found")) ]

runHandler(name, body, sink) ==
  CASE name = "handleAsk" -> runHandleAsk(body, sink)
    [] name = "handlePlan" -> runHandlePlan(body, sink)
    [] name = "handleDiagnose" -> runHandleDiagnose(body, sink)
    [] name = "handleGridPlan" -> runHandleGridPlan(body, sink)

\* An invocation after its handler has run up to its return or its upstream
\* await.
resumedInvocation(invocation, outcome) ==
  IF outcome.call = NoCall
    THEN [invocation EXCEPT !.pc = "done", !.validations = outcome.calls,
                            !.response = outcome.resp]
    ELSE [invocation EXCEPT !.pc = "callClaudeAPI", !.validations = outcome.calls,
                            !.upstreamCalls = Append(@, outcome.call)]

\* A variant of resumed in which the verdicts are kept in one place for all
\* invocations: the invocations that await the upstream service see the
\* verdicts of the handler that ran last.
resumed_SharedVerdicts(invocations, i, outcome) ==
  [ j \in DOMAIN invocations |->
      IF j = i THEN resumedInvocation(invocations[j], outcome)
      ELSE IF invocations[j].pc = "callClaudeAPI"
        THEN [invocations[j] EXCEPT !.validations = outcome.calls]
      ELSE invocations[j] ]

\* The invocations after the handler of invocation i has run: its locals
\* are its own.
resumed(invocations, i, outcome) ==
  [invocations EXCEPT ![i] = resumedInvocation(@, outcome)]

\* The invocations after the upstream call of invocation i has ended.
ended(invocations, i, outcome) ==
  [invocations EXCEPT ![i] =
     [@ EXCEPT !.pc = "done",
               !.upstreamResult = outcome,
               !.response = upstreamResponse(Route(invocations[i].request.method,
                                                   invocations[i].request.path), outcome)]]

arrive(i) ==
  /\ inFlight[i].pc = "idle"
  /\ \E req \in ConcurrentRequests : inFlight' = [inFlight EXCEPT ![i] = arrived(req)]
  /\ UNCHANGED <<classifierVars, dispatchVars>>

resume(i) ==
  /\ inFlight[i].pc \in HandlerNames
  /\ \E sink \in SinkOutcomes :
       \E outcome \in {runHandler(inFlight[i].pc, inFlight[i].request.body, sink)} :
         /\ inFlight' = resumed(inFlight, i, outcome)
         /\ console' = console \o outcome.entries
  /\ UNCHANGED <<pc, request, validations, auditStart, upstreamCalls, upstreamResult,
                 response, served, classifierVars>>

end(i) ==
  /\ inFlight[i].pc = "callClaudeAPI"
  /\ \E outcome \in UpstreamOutcomes : inFlight' = ended(inFlight, i, outcome)
  /\ UNCHANGED <<classifierVars, dispatchVars>>

NextConcurrent ==
  \E i \in 1..MaxInFlight :
    \/ arrive(i)
    \/ resume(i)
    \/ end(i)

SpecConcurrent == Init /\ [][NextConcurrent]_vars

\* ------------------------------------------------- claims: the classifier

\* T contains an in-scope (off-topic) keyword as a case-insensitive substring.
hasInScope(T) == some(inScopeKeywords, toLowerCase(T))
hasOffTopic(T) == some(offTopicKeywords, toLowerCase(T))

Classified == verdict # NoVerdict

\* C1 (as stated): every text shorter than 10 with no in-scope keyword is
\* rejected as too-vague, whatever off-topic keywords it contains.
C1_ShortTextIsTooVague ==
  Classified /\ Len(input) < 10 /\ ~hasInScope(input)
    => verdict = Verdict(FALSE, "too-vague")

\* C1 (amended): every text whose lower-cased form is shorter than 10 and
\* that contains neither an in-scope nor an off-topic keyword is rejected as
\* too-vague; a short text with an off-topic keyword and no in-scope keyword
\* is rejected as off-topic.
C1_ShortNeutralTextIsTooVague ==
  Classified /\ Len(toLowerCase(input)) < 10 /\ ~hasInScope(input)
    => verdict = Verdict(FALSE, IF hasOffTopic(input) THEN "off-topic" ELSE "too-vague")

C1_Witness ==
  /\ Classified
  /\ input # <<>>
  /\ Len(toLowerCase(input)) < 10
  /\ ~hasInScope(input)
  /\ ~hasOffTopic(input)
  /\ verdict.reason = "too-vague"

\* C5: every text that contains an in-scope keyword is allowed with reason
\* in-scope, whatever its length and whatever off-topic keywords it contains.
C5_InScopeAlwaysAllowed ==
  Classified /\ hasInScope(input) => verdict = Verdict(TRUE, "in-scope")

C5_Witness ==
  /\ Classified
  /\ hasInScope(input)
  /\ hasOffTopic(input)
  /\ Len(input) < 10
  /\ verdict.isRelevant

\* C6: every text that contains an off-topic keyword and no in-scope keyword
\* is rejected with reason off-topic.
C6_OffTopicRejected ==
  Classified /\ hasOffTopic(input) /\ ~hasInScope(input)
    => verdict = Verdict(FALSE, "off-topic")

C6_Witness ==
  /\ Classified
  /\ hasOffTopic(input)
  /\ ~hasInScope(input)
  /\ Len(input) < 10
  /\ verdict.reason = "off-topic"

\* C7: every text of length 10 or more with neither kind of keyword is
\* allowed with reason in-scope, and a text is rejected as too-vague only
\* when it is shorter than 10 and has no in-scope keyword.
C7_LongNeutralAllowed ==
  /\ Classified /\ Len(input) >= 10 /\ ~hasInScope(input) /\ ~hasOffTopic(input)
       => verdict = Verdict(TRUE, "in-scope")
  /\ Classified /\ verdict.reason = "too-vague"
       => Len(input) < 10 /\ ~hasInScope(input)

C7_Witness ==
  /\ Classified
  /\ Len(input) >= 10
  /\ ~hasInScope(input)
  /\ ~hasOffTopic(input)
  /\ verdict = Verdict(TRUE, "in-scope")

\* --------------------------------------------------- claims: the dispatch

\* The handler the request in flight is routed to, and its parsed body.
handler == Route(request.method, request.path)
IsObject == request.body.kind = "object"
Fields == request.body.fields
Done == pc = "done"

IsRejection(resp) ==
  /\ handler \in HandlerNames
  /\ resp.status = 200
  /\ DOMAIN resp.body = {"response", "isOffTopic", "validationReason"}
  /\ resp.body.isOffTopic = TRUE

C2_Scenario ==
  /\ handler = "handleDiagnose"
  /\ IsObject
  /\ Fields.plant = Str(MyTomato)
  /\ Fields.problem = Str(PoemAboutTaxFraud)

\* C2 (as stated): POST /api/diagnose with plant "my tomato" and problem
\* "write a poem about tax fraud": the plant is allowed, the problem is
\* rejected, and the response is 200 with isOffTopic and reason off-topic.
C2_ReasonFromProblem ==
  Done /\ C2_Scenario
    => /\ validations[1].result.isRelevant
       /\ ~validations[2].result.isRelevant
       /\ IsRejection(response)
       /\ response.body.validationReason = "off-topic"

\* C2 (amended): in that request the plant (9 characters, no in-scope
\* keyword) is rejected as too-vague and the problem as off-topic; the
\* response is 200 with isOffTopic, and its reason and message are those of
\* the plant verdict, too-vague.
C2_ReasonFromPlant ==
  Done /\ C2_Scenario
    => /\ validations[1] = [input |-> MyTomato, result |-> Verdict(FALSE, "too-vague")]
       /\ validations[2] = [input |-> PoemAboutTaxFraud, result |-> Verdict(FALSE, "off-topic")]
       /\ IsRejection(response)
       /\ response.body.validationReason = "too-vague"
       /\ response.body.response = createRejectionMessage(Verdict(FALSE, "too-vague"))
       /\ upstreamCalls = <<>>

C2_Witness == Done /\ C2_Scenario /\ response.status = 200

\* The fields the interface requires of each operation.
RequiredFields(h) ==
  CASE h = "handleAsk" -> {"question"}
    [] h = "handlePlan" -> {"spaceSize", "soilType", "goals", "location"}
    [] h = "handleDiagnose" -> {"plant", "problem", "timeframe", "location"}
    [] h = "handleGridPlan" -> {"width", "length", "plants"}

MissingRequiredField ==
  /\ handler \in HandlerNames
  /\ IsObject
  /\ \E name \in RequiredFields(handler) : Fields[name] = Undefined

\* C3: a request whose body lacks a required field of its operation is
\* answered 400 with a short message: not 500, not a topical rejection, and
\* with no upstream call.
C3_MissingFieldIs400 ==
  MissingRequiredField
    => /\ upstreamCalls = <<>>
       /\ Done => response.status = 400 /\ DOMAIN response.body = {"error"}

\* The verdicts that rejected a classified field of the request in flight.
RejectedCalls == { i \in DOMAIN validations : ~validations[i].result.isRelevant }

FirstRejected == validations[CHOOSE i \in RejectedCalls : \A j \in RejectedCalls : i <= j].result

\* C4: when the classifier rejects a classified field of a request, no
\* upstream call is made for it and its response is 200 with isOffTopic,
\* the rejection message of the deciding verdict and that verdict's reason.
C4_RejectedIsSoftSuccess ==
  RejectedCalls # {}
    => /\ upstreamCalls = <<>>
       /\ Done => response = Rejection(FirstRejected)

BothClassified ==
  /\ handler = "handleDiagnose"
  /\ IsObject
  /\ IsString(Fields.plant)
  /\ IsString(Fields.problem)

\* C8: in /api/diagnose plant and problem are classified independently, and
\* the rejection comes from the plant verdict whenever the plant is rejected
\* and from the problem verdict only when the plant is allowed and the
\* problem is rejected.
C8_FirstRejectedFieldDecides ==
  Done /\ BothClassified
    => LET plantVerdict == validateTopicRelevance(Fields.plant.value)
           problemVerdict == validateTopicRelevance(Fields.problem.value)
       IN  /\ validations = << [input |-> Fields.plant.value, result |-> plantVerdict],
                               [input |-> Fields.problem.value, result |-> problemVerdict] >>
           /\ ~plantVerdict.isRelevant
                => /\ IsRejection(response)
                   /\ response.body.validationReason = plantVerdict.reason
                   /\ response.body.response = createRejectionMessage(plantVerdict)
           /\ plantVerdict.isRelevant /\ ~problemVerdict.isRelevant
                => /\ IsRejection(response)
                   /\ response.body.validationReason = problemVerdict.reason
                   /\ response.body.response = createRejectionMessage(problemVerdict)

C8_Witness ==
  /\ Done
  /\ BothClassified
  /\ validations[1].result = Verdict(FALSE, "off-topic")
  /\ validations[2].result = Verdict(FALSE, "too-vague")
  /\ response.body.validationReason = "off-topic"

\* The classified fields of each operation.
ClassifiedFields(h) ==
  CASE h = "handleAsk" -> {"question"}
    [] h = "handlePlan" -> {"goals"}
    [] h = "handleDiagnose" -> {"plant", "problem"}
    [] h = "handleGridPlan" -> {"plants"}

\* The token budget the interface gives each operation.
TokenBudget(h) ==
  CASE h = "handleAsk" -> 1000
    [] h = "handlePlan" -> 1200
    [] h = "handleDiagnose" -> 1000
    [] h = "handleGridPlan" -> 1500

\* Structural validation passed and the classifier allows every classified field.
AllFieldsAllowed ==
  /\ handler \in HandlerNames
  /\ IsObject
  /\ \A name \in ClassifiedFields(handler) :
       /\ IsString(Fields[name])
       /\ validateTopicRelevance(Fields[name].value).isRelevant
  /\ handler = "handleAsk" => ~Falsy(Fields.question)
  /\ handler = "handleGridPlan"
       => ~Falsy(Fields.width) /\ ~Falsy(Fields.length) /\ ~Falsy(Fields.plants)

\* C9: when every classified field of a request is allowed, the upstream
\* client is invoked exactly once, with the token budget of the operation,
\* and on upstream success the response is 200 with the upstream text, the
\* usage and isOffTopic false.
C9_AllowedIsForwardedOnce ==
  Done /\ AllFieldsAllowed
    => /\ Len(upstreamCalls) = 1
       /\ upstreamCalls[1].max_tokens = TokenBudget(handler)
       /\ upstreamResult = "ok"
            => response = Response(200, jsonHeaders,
                                   [response |-> "upstream text", usage |-> "upstream usage",
                                    isOffTopic |-> FALSE])

GridPlanFieldMissing ==
  /\ handler = "handleGridPlan"
  /\ IsObject
  /\ \E name \in {"width", "length", "plants"} : Fields[name] = Undefined

\* C10: a /api/grid-plan request missing width, length or plants is answered
\* with a 400 structural error, and the classifier, the audit log and the
\* upstream client are never invoked for it.
C10_GridPlanMissingFieldIs400 ==
  GridPlanFieldMissing
    => /\ validations = <<>>
       /\ Len(console) = auditStart
       /\ upstreamCalls = <<>>
       /\ pc \in {"handleGridPlan", "done"}
       /\ Done => response = Response(400, jsonHeaders,
                                      [error |-> "Width, length, and plants are required"])

C10_Witness ==
  /\ Done
  /\ GridPlanFieldMissing
  /\ Fields.plants = Undefined
  /\ Fields.width = Num(10)
  /\ Fields.length = Num(10)
  /\ response.status = 400

\* ----------------------------------------------------- claims: the audit

\* What the request in flight has written to the console.
Written == SubSeq(console, auditStart + 1, Len(console))

IsLogEntry(entry) == "type" \in DOMAIN entry /\ entry.type = "off-topic-attempt"

AuditEntries == { i \in DOMAIN Written : IsLogEntry(Written[i]) }

SinkFailed == \E i \in DOMAIN Written : Written[i].level = "error"

\* C11: a failure while recording the audit entry is swallowed: a rejected
\* request gets its 200 with isOffTopic and the composed refusal whether or
\* not the console write fails, never a 500.
C11_AuditFailureSwallowed ==
  Done /\ Written # <<>>
    => /\ RejectedCalls # {}
       /\ response = Rejection(FirstRejected)
       /\ response.status = 200

C11_Witness ==
  /\ Done
  /\ SinkFailed
  /\ IsRejection(response)
  /\ response.body.validationReason = "off-topic"

GenericMessage(h) ==
  CASE h = "handleAsk" -> "Failed to get AI response"
    [] h = "handlePlan" -> "Failed to generate plan"
    [] h = "handleDiagnose" -> "Failed to diagnose issue"
    [] h = "handleGridPlan" -> "Failed to generate grid plan"

MalformedBody == handler \in HandlerNames /\ request.body.kind \in {"malformed", "null"}

\* C13: a handler failure that is no structural-validation error (malformed
\* body, upstream network failure, non-OK upstream status) yields 500 with
\* {error, details}: the generic message of the operation and the message of
\* the failure, which for a non-OK status carries the upstream error text;
\* the upstream call is made at most once for a request.
C13_FailureIs500 ==
  /\ Len(upstreamCalls) <= 1
  /\ Done /\ (MalformedBody \/ upstreamResult \in {"networkError", "notOk", "malformed"})
       => /\ response.status = 500
          /\ DOMAIN response.body = {"error", "details"}
          /\ response.body.error = GenericMessage(handler)
  /\ Done /\ MalformedBody => upstreamCalls = <<>>
  /\ Done /\ upstreamResult = "notOk"
       => response.body.details = <<"Claude API error: ", "upstream error text">>
  /\ Done /\ upstreamResult = "networkError"
       => response.body.details = <<"TypeError: fetch failed">>

C13_Witness ==
  /\ Done
  /\ upstreamResult = "notOk"
  /\ response.status = 500
  /\ Len(upstreamCalls) = 1

\* ------------------------------------------------------ claims: routing

\* The three cross-origin headers.
CrossOriginHeaders ==
  { <<"Access-Control-Allow-Origin", "*">>,
    <<"Access-Control-Allow-Methods", "POST, GET, OPTIONS">>,
    <<"Access-Control-Allow-Headers", "Content-Type">> }

NothingInvoked ==
  /\ validations = <<>>
  /\ Written = <<>>
  /\ upstreamCalls = <<>>

\* C14: an OPTIONS request to any path is answered before routing with an
\* empty success response that carries the three cross-origin headers, and
\* no handler, classifier, audit log or upstream call is involved; every
\* other response carries the same three headers.
C14_PreflightAndCorsHeaders ==
  /\ request.method = "OPTIONS"
       => /\ Done
          /\ response = [status |-> 200, headers |-> CrossOriginHeaders, body |-> [text |-> <<>>]]
          /\ NothingInvoked
  /\ Done => response.status # 0 /\ CrossOriginHeaders \subseteq response.headers

C14_Witness ==
  /\ Done
  /\ request.method = "OPTIONS"
  /\ request.path = "/api/ask"
  /\ response.status = 200

\* The method and path pairs fetch routes.
KnownRoutes ==
  { <<"POST", "/api/ask">>, <<"POST", "/api/plan">>, <<"POST", "/api/diagnose">>,
    <<"POST", "/api/grid-plan">>, <<"GET", "/api/health">> }

Unmatched ==
  /\ request.method \in {"GET", "POST"}
  /\ <<request.method, request.path>> \notin KnownRoutes

\* C15: a request that is no OPTIONS request and whose method and path match
\* no route (a known path with the wrong method included) is answered 404,
\* and no handler, classifier, audit log or upstream call is involved.
C15_UnmatchedIsNotFound ==
  Unmatched
    => /\ Done
       /\ response = [status |-> 404, headers |-> CrossOriginHeaders, body |-> [text |-> <<"Not Found">>]]
       /\ NothingInvoked

C15_Witness ==
  /\ Done
  /\ request.method = "GET"
  /\ request.path = "/api/ask"
  /\ response.status = 404

\* ------------------------------------------------ claims: empty strings

EmptyString == Str(<<>>)

\* C17: an empty question on /api/ask, and an empty plants or a width or
\* length of 0 on /api/grid-plan, is taken for missing: 400 and the
\* classifier is not reached; an empty goals on /api/plan reaches the
\* classifier and is answered 200 with isOffTopic and reason too-vague.
C17_EmptyStringPerOperation ==
  /\ Done /\ IsObject /\ handler = "handleAsk" /\ Fields.question = EmptyString
       => response.status = 400 /\ validations = <<>>
  /\ Done /\ IsObject /\ handler = "handleGridPlan"
          /\ (Fields.plants = EmptyString \/ Fields.width = Num(0) \/ Fields.length = Num(0))
       => response.status = 400 /\ validations = <<>>
  /\ Done /\ IsObject /\ handler = "handlePlan" /\ Fields.goals = EmptyString
       => /\ validations = << [input |-> <<>>, result |-> Verdict(FALSE, "too-vague")] >>
          /\ IsRejection(response)
          /\ response.body.validationReason = "too-vague"

C17_Witness ==
  /\ Done
  /\ IsObject
  /\ handler = "handleAsk"
  /\ Fields.question = EmptyString
  /\ response.status = 400

\* ------------------------------------------------- claims: concurrency

Invocations == 1..MaxInFlight

Completed(i) == inFlight[i].pc = "done"

\* What a request gets when it is handled with no other request around,
\* given how its upstream call ends if it makes one.
handledAlone(req, result) ==
  LET atAwait == arrived(req)
      outcome == runHandler(atAwait.pc, req.body, "ok")
  IN  IF atAwait.pc = "done" THEN atAwait
      ELSE IF outcome.call = NoCall THEN resumedInvocation(atAwait, outcome)
      ELSE [resumedInvocation(atAwait, outcome) EXCEPT
              !.pc = "done",
              !.upstreamResult = result,
              !.response = upstreamResponse(atAwait.pc, result)]

\* C16: under any interleaving of the requests in progress, the verdict of
\* a text is the verdict of the classifier on that text, whichever requests
\* ran before or meanwhile; two requests with the same body and the same
\* upstream result have the same verdicts and the same response; and every
\* completed request has the verdicts, the upstream call and the response
\* it has when handled alone, whether the other requests failed or not.
C16_RequestsAreIndependent ==
  /\ \A i \in Invocations :
       \A k \in DOMAIN inFlight[i].validations :
         inFlight[i].validations[k].result
           = validateTopicRelevance(inFlight[i].validations[k].input)
  /\ \A i, j \in Invocations :
       /\ Completed(i) /\ Completed(j)
       /\ inFlight[i].request = inFlight[j].request
       /\ inFlight[i].upstreamResult = inFlight[j].upstreamResult
       => inFlight[i] = inFlight[j]
  /\ \A i \in Invocations :
       Completed(i) => inFlight[i] = handledAlone(inFlight[i].request, inFlight[i].upstreamResult)
  /\ \A i \in Invocations :
       inFlight[i].pc = "callClaudeAPI"
         => /\ inFlight[i].response = NoResponse
            /\ inFlight[i].validations
                 = handledAlone(inFlight[i].request, "ok").validations

\* Two requests with the same text awaited the upstream service together;
\* one failed, the other was answered.
C16_Witness ==
  /\ Completed(1) /\ Completed(2)
  /\ inFlight[1].request = inFlight[2].request
  /\ inFlight[1].validations = <<Call(HelloHello)>>
  /\ inFlight[1].upstreamResult = "networkError" /\ inFlight[1].response.status = 500
  /\ inFlight[2].upstreamResult = "ok" /\ inFlight[2].response.status = 200
  /\ inFlight[2].response.body.isOffTopic = FALSE

\* -------------------------------------------------- claims: termination

InFlight == pc \notin {"idle", "done"}

\* The requests the claim says are answered without the upstream service:
\* preflight, health, unmatched, structurally invalid and rejected ones.
AnsweredLocally ==
  \/ request.method = "OPTIONS"
  \/ handler \in {"health", "notFound"}
  \/ MissingRequiredField
  \/ RejectedCalls # {}

\* The claim but for the structurally invalid requests.
C18_OneResponseAndCompletion ==
  /\ [](AnsweredLocally /\ ~MissingRequiredField
         => upstreamCalls = <<>> /\ upstreamResult = "none")
  /\ [](Done => response.status \in {200, 400, 404, 500})
  /\ [](InFlight => response = NoResponse)
  /\ [][response' # response => (pc' = "done" /\ pc # "done") \/ served' = served + 1]_vars
  /\ InFlight ~> Done

\* C18: every request gets exactly one response, with status 200, 400, 404
\* or 500, and nothing escapes fetch; as long as the upstream call ends,
\* every request completes; and the requests that are rejected, structurally
\* invalid, unmatched, health or preflight complete without an upstream call.
C18_EveryRequestCompletes ==
  /\ C18_OneResponseAndCompletion
  /\ [](AnsweredLocally => upstreamCalls = <<>> /\ upstreamResult = "none")

====
